---------------------------- MODULE Spec2Model ----------------------------
(***************************************************************************)
(* A model of the task manager's HTTP handlers (src/src/app.js), of the    *)
(* schema and the status repository (src/src/server.js), and of the       *)
(* cookie transport the handlers use for the session and the flash         *)
(* message.  One browser talks to the server; every request is handled    *)
(* in one atomic step (the handlers await every repository call before    *)
(* they reply).                                                            *)
(***************************************************************************)
EXTENDS Integers, Sequences, FiniteSets, TLC

(***************************************************************************)
(* Bounds of the model.                                                    *)
(***************************************************************************)
MaxUsers == 2
MaxStatuses == 1
MaxTasks == 1
MaxCalls == 2

\* The absent value: JavaScript's null / undefined, SQL's NULL.
Null == "<null>"

(***************************************************************************)
(* Text helpers.  Strings are the strings of the program; Len, SubSeq and  *)
(* \o act on them character by character.                                  *)
(***************************************************************************)
CharAt(s, i) == SubSeq(s, i, i)

Drop(s, n) == SubSeq(s, n + 1, Len(s))

StartsWith(s, p) == Len(s) >= Len(p) /\ SubSeq(s, 1, Len(p)) = p

\* String.prototype.indexOf for a one-character needle, 1-based; 0 when absent.
IndexOf(s, ch) ==
    LET hits == {i \in 1..Len(s) : CharAt(s, i) = ch}
    IN  IF hits = {} THEN 0 ELSE CHOOSE i \in hits : \A j \in hits : i <= j

\* String.prototype.trim, for the blank the model's strings can hold.
RECURSIVE TrimLeft(_)
TrimLeft(s) == IF s # "" /\ CharAt(s, 1) = " " THEN TrimLeft(Drop(s, 1)) ELSE s

RECURSIVE TrimRight(_)
TrimRight(s) ==
    IF s # "" /\ CharAt(s, Len(s)) = " " THEN TrimRight(SubSeq(s, 1, Len(s) - 1)) ELSE s

Trim(s) == TrimRight(TrimLeft(s))

\* String.prototype.split for a one-character separator.
RECURSIVE Split(_, _)
Split(s, ch) ==
    LET i == IndexOf(s, ch)
    IN  IF i = 0 THEN <<s>> ELSE <<SubSeq(s, 1, i - 1)>> \o Split(Drop(s, i), ch)

\* The characters encodeURIComponent escapes, among those the model's
\* strings hold, with their escapes.  Every other character of the model
\* (letters, digits, - _ . ! ~ * ' ( )) is unreserved and left as it is.
Escapes ==
    [c \in {" ", "\"", "%", ",", "/", ":", ";", "=", "@", "\\", "{", "}"} |->
        CASE c = " " -> "%20"
          [] c = "\"" -> "%22"
          [] c = "%" -> "%25"
          [] c = "," -> "%2C"
          [] c = "/" -> "%2F"
          [] c = ":" -> "%3A"
          [] c = ";" -> "%3B"
          [] c = "=" -> "%3D"
          [] c = "@" -> "%40"
          [] c = "\\" -> "%5C"
          [] c = "{" -> "%7B"
          [] c = "}" -> "%7D"]

\* The concatenation of the strings parts[lo..hi].
RECURSIVE Join(_, _, _)
Join(parts, lo, hi) ==
    IF lo > hi THEN ""
    ELSE IF lo = hi THEN parts[lo]
    ELSE LET mid == (lo + hi) \div 2
         IN  Join(parts, lo, mid) \o Join(parts, mid + 1, hi)

encodeURIComponent(s) ==
    LET out == [i \in 1..Len(s) |->
                   IF CharAt(s, i) \in DOMAIN Escapes THEN Escapes[CharAt(s, i)]
                   ELSE CharAt(s, i)]
    IN  Join(out, 1, Len(s))

\* decodeURIComponent: every "%" starts an escape of three characters, which
\* decodes to one; [ok |-> FALSE] stands for the URIError it throws on a
\* malformed escape.
decodeURIComponent(s) ==
    LET n == Len(s)
        IsEscape(i) == i >= 1 /\ CharAt(s, i) = "%"
        Decoded(i) == {c \in DOMAIN Escapes : i + 2 <= n /\ Escapes[c] = SubSeq(s, i, i + 2)}
        out == [i \in 1..n |->
                   IF IsEscape(i) THEN (CHOOSE c \in Decoded(i) : TRUE)
                   ELSE IF IsEscape(i - 1) \/ IsEscape(i - 2) THEN ""
                   ELSE CharAt(s, i)]
    IN  IF \E i \in 1..n : IsEscape(i) /\ Decoded(i) = {}
        THEN [ok |-> FALSE, val |-> ""]
        ELSE [ok |-> TRUE, val |-> Join(out, 1, n)]

\* Values are kept as their text: an integer as its decimal digits.
IsDigits(s) ==
    s # "" /\ \A i \in 1..Len(s) :
                 CharAt(s, i) \in {"0", "1", "2", "3", "4", "5", "6", "7", "8", "9"}

RECURSIVE StripZeros(_)
StripZeros(s) == IF Len(s) > 1 /\ CharAt(s, 1) = "0" THEN StripZeros(Drop(s, 1)) ELSE s

\* Number(text) of a query parameter: the integer's digits, or NaN.
NaN == "NaN"

Number(v) == IF IsDigits(v) THEN StripZeros(v) ELSE NaN

\* What SQLite keeps or compares when a text meets a column of INTEGER
\* affinity: a text that is an integer literal becomes that integer, any
\* other text stays the text it is.
Affinity(v) == IF IsDigits(v) THEN StripZeros(v) ELSE v

(***************************************************************************)
(* JSON, for the flash payload {type, message}.                            *)
(***************************************************************************)
JSONEscape(s) ==
    LET out == [i \in 1..Len(s) |->
                   IF CharAt(s, i) \in {"\"", "\\"} THEN "\\" \o CharAt(s, i)
                   ELSE CharAt(s, i)]
    IN  Join(out, 1, Len(s))

JSONQuote(s) == "\"" \o JSONEscape(s) \o "\""

JSONstringify(flash) ==
    "{\"type\":" \o JSONQuote(flash.type) \o ",\"message\":" \o JSONQuote(flash.message) \o "}"

\* Reads a JSON string: its opening quote, its characters up to the first
\* quote no backslash escapes, and what follows.  A backslash escapes the
\* next character when an even number of backslashes run up to it.
ReadJSONString(s) ==
    LET fail == [ok |-> FALSE, val |-> "", rest |-> ""]
        n == Len(s)
        RunStart(i) ==
            LET others == {j \in 1..i : CharAt(s, j) # "\\"}
            IN  IF others = {} THEN 1
                ELSE 1 + CHOOSE j \in others : \A k \in others : k <= j
        \* s[i] is a backslash that escapes s[i + 1].
        Escaping(i) ==
            i >= 1 /\ CharAt(s, i) = "\\" /\ (i - RunStart(i)) % 2 = 0
        closes == {i \in 2..n : CharAt(s, i) = "\"" /\ ~Escaping(i - 1)}
    IN  IF ~StartsWith(s, "\"") \/ closes = {} THEN fail
        ELSE LET end == CHOOSE i \in closes : \A j \in closes : i <= j
                 out == [i \in 1..end |->
                            IF i = 1 \/ i = end \/ Escaping(i) THEN "" ELSE CharAt(s, i)]
             IN  IF \E i \in 2..(end - 1) :
                        Escaping(i) /\ CharAt(s, i + 1) \notin {"\"", "\\"}
                 THEN fail
                 ELSE [ok |-> TRUE, val |-> Join(out, 1, end), rest |-> Drop(s, end)]

\* JSON.parse on the texts a flash cookie holds: an object of the two string
\* members setFlash writes.  [ok |-> FALSE] stands for the SyntaxError of a
\* text that is no such object.
JSONparse(v) ==
    LET fail == [ok |-> FALSE, val |-> Null]
        p1 == "{\"type\":"
        p2 == ",\"message\":"
    IN  IF ~StartsWith(v, p1) THEN fail
        ELSE LET a == ReadJSONString(Drop(v, Len(p1)))
             IN  IF ~a.ok \/ ~StartsWith(a.rest, p2) THEN fail
                 ELSE LET b == ReadJSONString(Drop(a.rest, Len(p2)))
                      IN  IF ~b.ok \/ b.rest # "}" THEN fail
                          ELSE [ok |-> TRUE, val |-> [type |-> a.val, message |-> b.val]]

(***************************************************************************)
(* The texts a cookie of the model holds: a user's id, a flash payload,    *)
(* the empty value of a cleared cookie.  Encoded is encodeURIComponent on  *)
(* them, computed once.                                                    *)
(***************************************************************************)
\* The function f held as the table of its values, each computed once.
Tabulated(f) == <<>> @@ f

UserIds == {ToString(i) : i \in 1..MaxUsers}

FlashMessages ==
    {"Access denied", "status.name is required", "status.created", "status.updated",
     "Cannot delete status with assigned tasks", "status.deleted", "Validation error",
     "task.created", "task.updated", "task.deleted",
     "Validation error: check required fields", "Email already in use", "User created",
     "User updated", "Cannot delete user with assigned tasks", "User deleted",
     "Invalid credentials", "Signed in", "Signed out"}

Flashes == [type : {"danger", "success"}, message : FlashMessages]

JSONText == Tabulated([f \in Flashes |-> JSONstringify(f)])

CookieValues == UserIds \cup {""} \cup {JSONText[f] : f \in Flashes}

Encoded == Tabulated([v \in CookieValues |-> encodeURIComponent(v)])

(***************************************************************************)
(* Cookies (app.js, "Simple cookie helpers").  A Set-Cookie header is kept *)
(* as the record of its name=value pair and the attributes the browser     *)
(* acts on; the Cookie request header is the string the browser sends.     *)
(***************************************************************************)
\* new Date(0).toUTCString()
Epoch == "Thu, 01 Jan 1970 00:00:00 GMT"

serializeCookie(name, value, opts) ==
    [name |-> name, value |-> Encoded[value],
     path |-> opts.path, expires |-> opts.expires]

\* Appends to the reply's Set-Cookie headers.
setCookie(headers, name, value, opts) ==
    Append(headers, serializeCookie(name, value, opts))

clearCookie(headers, name) ==
    setCookie(headers, name, "", [path |-> "/", expires |-> Epoch])

\* parseCookies: the function from cookie name to decoded value.  A later
\* pair of the same name overrides an earlier one; a pair without "=" is
\* skipped; a value that does not decode is kept raw.
RECURSIVE ReducePairs(_, _)
ReducePairs(pairs, acc) ==
    IF pairs = <<>> THEN acc
    ELSE LET pair == Head(pairs)
             idx == IndexOf(pair, "=")
             key == Trim(SubSeq(pair, 1, idx - 1))
             val == Trim(Drop(pair, idx))
             dec == decodeURIComponent(val)
             got == IF dec.ok THEN dec.val ELSE val
         IN  IF idx = 0 THEN ReducePairs(Tail(pairs), acc)
             ELSE ReducePairs(Tail(pairs),
                      [k \in DOMAIN acc \cup {key} |-> IF k = key THEN got ELSE acc[k]])

parseCookies(cookieHeader) ==
    IF cookieHeader = Null THEN <<>>
    ELSE LET parts == Split(cookieHeader, ";")
             trimmed == [i \in DOMAIN parts |-> Trim(parts[i])]
         IN  ReducePairs(SelectSeq(trimmed, LAMBDA p : p # ""), <<>>)

\* request.cookies.<name>, Null when there is none (undefined).
Cookie(cookies, name) == IF name \in DOMAIN cookies THEN cookies[name] ELSE Null

(***************************************************************************)
(* The browser: the Cookie header it sends, and what it keeps of a reply's *)
(* Set-Cookie headers (a cookie that expires in the past is dropped).      *)
(***************************************************************************)
CookieNames == <<"userId", "flash">>

CookieHeader(j) ==
    LET held == SelectSeq(CookieNames, LAMBDA n : j[n] # Null)
        pairs == [i \in DOMAIN held |->
                     (IF i > 1 THEN "; " ELSE "") \o held[i] \o "=" \o j[held[i]]]
    IN  IF held = <<>> THEN Null ELSE Join(pairs, 1, Len(pairs))

RECURSIVE StoreCookies(_, _)
StoreCookies(j, headers) ==
    IF headers = <<>> THEN j
    ELSE LET h == Head(headers)
         IN  StoreCookies([j EXCEPT ![h.name] = IF h.expires = Epoch THEN Null ELSE h.value],
                          Tail(headers))

(***************************************************************************)
(* parseCookies on every Cookie header the browser can send, and           *)
(* JSON.parse on every flash cookie these hold, computed once.             *)
(***************************************************************************)
Jars ==
    [userId : {Null} \cup {Encoded[v] : v \in UserIds},
     flash : {Null} \cup {Encoded[v] : v \in CookieValues \ UserIds}]

ParsedCookies == Tabulated([j \in Jars |-> parseCookies(CookieHeader(j))])

ParsedJSON ==
    Tabulated([v \in {Cookie(ParsedCookies[j], "flash") : j \in Jars} |->
        IF v = Null THEN [ok |-> FALSE, val |-> Null] ELSE JSONparse(v)])

(***************************************************************************)
(* Flash helpers (app.js, "Simple flash helpers via cookie").              *)
(***************************************************************************)
setFlash(headers, type, message) ==
    setCookie(headers, "flash", JSONText[[type |-> type, message |-> message]],
              [path |-> "/", expires |-> Null])

\* A flash of null: the flash with no type and no message.
NoFlash == [type |-> Null, message |-> Null]

\* getFlash that reads the flash cookie and leaves it set.
getFlashKept(cookies, headers) ==
    LET v == Cookie(cookies, "flash")
    IN  IF v = Null \/ v = "" THEN [flash |-> NoFlash, headers |-> headers]
        ELSE LET parsed == ParsedJSON[v]
             IN  [flash |-> IF parsed.ok THEN parsed.val ELSE NoFlash, headers |-> headers]

\* getFlash: the flash to show (NoFlash for none) and the reply's headers,
\* with the clearing Set-Cookie appended when a flash was read.
getFlash(cookies, headers) ==
    LET v == Cookie(cookies, "flash")
    IN  IF v = Null \/ v = "" THEN [flash |-> NoFlash, headers |-> headers]
        ELSE LET parsed == ParsedJSON[v]
             IN  IF parsed.ok
                 THEN [flash |-> parsed.val, headers |-> clearCookie(headers, "flash")]
                 ELSE [flash |-> NoFlash, headers |-> headers]

(***************************************************************************)
(* The texts a form field, a query parameter or a url parameter carries,   *)
(* and trim, Number and the column affinity on each, computed once.        *)
(***************************************************************************)
FormTexts ==
    {"", "new", " done ", "task", "Ann", "Lee", "a@x", "b@x", "abc", "ab", "xyz", "on",
     "delete", "Patch", "get"}
    \cup {ToString(i) : i \in 1..(MaxUsers + MaxStatuses + MaxTasks)}

Trimmed == Tabulated([s \in FormTexts |-> Trim(s)])

Numbers == Tabulated([s \in FormTexts |-> Number(s)])

Affinities == Tabulated([s \in FormTexts |-> Affinity(s)])

(***************************************************************************)
(* State.                                                                  *)
(*   fkEnforced  whether the SQLite connection enforces the schema's       *)
(*               foreign keys.  The connection (server.js, knexLib) never  *)
(*               issues PRAGMA foreign_keys, so this is the library's      *)
(*               compile-time default: either value, fixed for a run.      *)
(*   users, statuses, tasks   the rows of the tables.  A task row carries  *)
(*               its tasks_labels rows as the set labelIds.                *)
(*   seq         the last id each autoincrement column has given out.      *)
(*   jar         the browser's cookies, name to raw value (Null: none).    *)
(*   reply       the reply to the last request.                            *)
(*   calls       the requests in flight: each handler that waits at an     *)
(*               await, with the request as it has read it so far.         *)
(***************************************************************************)
VARIABLES fkEnforced, users, statuses, tasks, seq, jar, reply, calls

vars == <<fkEnforced, users, statuses, tasks, seq, jar, reply, calls>>

\* Ids are kept as the text of the integer.
Id(n) == ToString(n)

\* No route of app.js writes the labels table.
labels == {}

\* request.currentUser === null: no row.
NoUser == {}

(***************************************************************************)
(* The tables' constraints (server.js, ensureSchema).                      *)
(***************************************************************************)
\* users.email is unique: whether the rows would break that.
EmailTaken(rows, email, exceptId) == \E u \in rows : u.email = email /\ u.id # exceptId

\* tasks.statusId, creatorId and executorId reference statuses and users;
\* tasks_labels.labelId references labels.  A foreign key of NULL references
\* nothing.  Checked only by a connection that enforces foreign keys.
TaskForeignKeysHold(t, us, ss) ==
    /\ \E s \in ss : s.id = t.statusId
    /\ \E u \in us : u.id = t.creatorId
    /\ t.executorId = Null \/ \E u \in us : u.id = t.executorId
    /\ \A l \in t.labelIds : \E lb \in labels : lb.id = l

(***************************************************************************)
(* statusRepository (server.js).  A repository call yields the tables it   *)
(* leaves and what it returns; threw stands for a rejected promise.        *)
(***************************************************************************)
statusFindById(id) == LET key == Affinities[id] IN {s \in statuses : s.id = key}

statusCreate(attrs) ==
    LET id == Id(seq.statuses + 1)
    IN  [statuses |-> statuses \cup {[id |-> id, name |-> attrs.name]},
         seq |-> [seq EXCEPT !.statuses = @ + 1]]

statusUpdate(id, attrs) ==
    {IF s.id = Affinities[id] THEN [s EXCEPT !.name = attrs.name] ELSE s : s \in statuses}

\* remove without its count of the tasks that reference the status.
statusRemoveUncounted(id) ==
    LET deleted == {s \in statuses : s.id = Affinities[id]}
    IN  [statuses |-> statuses \ deleted, ok |-> Cardinality(deleted) > 0]

\* remove: false, and nothing deleted, when a task references the status;
\* otherwise whether a row was deleted.
statusRemove(id) ==
    LET count == Cardinality({t \in tasks : t.statusId = Affinities[id]})
        deleted == {s \in statuses : s.id = Affinities[id]}
    IN  IF count > 0 THEN [statuses |-> statuses, ok |-> FALSE]
        ELSE [statuses |-> statuses \ deleted, ok |-> Cardinality(deleted) > 0]

(***************************************************************************)
(* userRepository.  Its findByEmail, create and update are plain queries   *)
(* on the users table; remove deletes the row and reports a delete the     *)
(* schema's foreign keys block as false instead of throwing.               *)
(***************************************************************************)
userFindById(id) == LET key == Affinities[id] IN {u \in users : u.id = key}

userFindByEmail(email) == {u \in users : u.email = email}

\* create on a users table whose email column is not unique.
userCreateNotUnique(attrs) ==
    LET id == Id(seq.users + 1)
        row == [id |-> id, firstName |-> attrs.firstName, lastName |-> attrs.lastName,
                email |-> attrs.email, password |-> attrs.password]
    IN  [threw |-> FALSE, users |-> users \cup {row},
         seq |-> [seq EXCEPT !.users = @ + 1], row |-> row]

userCreate(attrs) ==
    LET id == Id(seq.users + 1)
        row == [id |-> id, firstName |-> attrs.firstName, lastName |-> attrs.lastName,
                email |-> attrs.email, password |-> attrs.password]
    IN  IF EmailTaken(users, attrs.email, id)
        THEN [threw |-> TRUE, users |-> users, seq |-> seq, row |-> row]
        ELSE [threw |-> FALSE, users |-> users \cup {row},
              seq |-> [seq EXCEPT !.users = @ + 1], row |-> row]

\* attrs.password is Null when the handler sets no password.
userUpdate(id, attrs) ==
    LET Updated(u) ==
            [u EXCEPT !.firstName = attrs.firstName, !.lastName = attrs.lastName,
                      !.email = attrs.email,
                      !.password = IF attrs.password = Null THEN @ ELSE attrs.password]
    IN  IF userFindById(id) # {} /\ EmailTaken(users, attrs.email, Affinities[id])
        THEN [threw |-> TRUE, users |-> users]
        ELSE [threw |-> FALSE,
              users |-> {IF u.id = Affinities[id] THEN Updated(u) ELSE u : u \in users}]

\* ON DELETE RESTRICT of tasks.creatorId blocks the delete, and ON DELETE SET
\* NULL of tasks.executorId clears the executor, on a connection that enforces
\* foreign keys.
userRemove(id) ==
    LET deleted == {u \in users : u.id = Affinities[id]}
        restricted == fkEnforced /\ \E t \in tasks : t.creatorId = Affinities[id]
        SetNull(t) == IF fkEnforced /\ t.executorId = Affinities[id]
                      THEN [t EXCEPT !.executorId = Null] ELSE t
    IN  IF restricted \/ deleted = {}
        THEN [ok |-> FALSE, users |-> users, tasks |-> tasks]
        ELSE [ok |-> TRUE, users |-> users \ deleted, tasks |-> {SetNull(t) : t \in tasks}]

(***************************************************************************)
(* taskRepository.  create and update write the row and, when label ids    *)
(* are given, its tasks_labels rows; findAll conjoins the filters given.   *)
(***************************************************************************)
taskFindById(id) == LET key == Affinities[id] IN {t \in tasks : t.id = key}

\* An SQL comparison with a bound value: NaN binds as NULL, which equals
\* nothing, and a NULL column equals nothing.
SqlEq(col, v) == v # NaN /\ col # Null /\ col = v

taskMatches(t, filters) ==
    /\ "statusId" \in DOMAIN filters => SqlEq(t.statusId, filters.statusId)
    /\ "executorId" \in DOMAIN filters => SqlEq(t.executorId, filters.executorId)
    /\ "labelId" \in DOMAIN filters => \E l \in t.labelIds : SqlEq(l, filters.labelId)
    /\ "hasLabel" \in DOMAIN filters => t.labelIds # {}
    /\ "createdBy" \in DOMAIN filters => SqlEq(t.creatorId, filters.createdBy)

taskFindAll(filters) == {t \in tasks : taskMatches(t, filters)}

\* attrs.labelIds is [given |-> FALSE] for null, or the ids to associate.
taskCreate(attrs) ==
    LET id == Id(seq.tasks + 1)
        row == [id |-> id, name |-> attrs.name, statusId |-> Affinities[attrs.statusId],
                creatorId |-> attrs.creatorId,
                executorId |-> IF attrs.executorId = Null THEN Null
                               ELSE Affinities[attrs.executorId],
                labelIds |-> IF attrs.labelIds.given THEN attrs.labelIds.ids ELSE {}]
    IN  IF fkEnforced /\ ~TaskForeignKeysHold(row, users, statuses)
        THEN [threw |-> TRUE, tasks |-> tasks, seq |-> seq]
        ELSE [threw |-> FALSE, tasks |-> tasks \cup {row},
              seq |-> [seq EXCEPT !.tasks = @ + 1]]

taskUpdate(id, attrs) ==
    LET Updated(t) ==
            [t EXCEPT !.name = attrs.name, !.statusId = Affinities[attrs.statusId],
                      !.executorId = IF attrs.executorId = Null THEN Null
                                     ELSE Affinities[attrs.executorId],
                      !.labelIds = IF attrs.labelIds.given THEN attrs.labelIds.ids ELSE @]
        after == {IF t.id = Affinities[id] THEN Updated(t) ELSE t : t \in tasks}
    IN  IF fkEnforced /\ \E t \in after : ~TaskForeignKeysHold(t, users, statuses)
        THEN [threw |-> TRUE, tasks |-> tasks]
        ELSE [threw |-> FALSE, tasks |-> after]

taskRemove(id) == LET key == Affinities[id] IN {t \in tasks : t.id # key}

(***************************************************************************)
(* bcrypt: a hash of a password is a text no password of the model equals, *)
(* and compare accepts exactly the password the hash was made of.          *)
(***************************************************************************)
bcryptHash(password) == "$2b$10$" \o password

Hashes == Tabulated([password \in FormTexts |-> bcryptHash(password)])

bcryptCompare(password, hash) == hash = Hashes[password]

\* i18next's t: with no resource for a key it returns the key.
T(key) == key

(***************************************************************************)
(* The inputs of the model: what a request can carry.                      *)
(***************************************************************************)
StatusIds == {Id(i) : i \in 1..MaxStatuses}

TaskIds == {Id(i) : i \in 1..MaxTasks}

\* data.name of a status form.
StatusNames == {"", "new", " done "}

\* data of a user form.
UserForms ==
    {[firstName |-> "Ann", lastName |-> "Lee", email |-> e, password |-> "abc"] :
        e \in {"a@x", "b@x"}}
    \cup {[firstName |-> "", lastName |-> "Lee", email |-> "a@x", password |-> "abc"],
          [firstName |-> "Ann", lastName |-> "", email |-> "a@x", password |-> "abc"],
          [firstName |-> "Ann", lastName |-> "Lee", email |-> "", password |-> "abc"],
          [firstName |-> "Ann", lastName |-> "Lee", email |-> "a@x", password |-> "ab"]}

\* data of a user's edit form.
UserEdits ==
    {[firstName |-> "Ann", lastName |-> "Lee", email |-> "a@x", password |-> "abc"],
     [firstName |-> "Ann", lastName |-> "Lee", email |-> "b@x", password |-> "abc"],
     [firstName |-> "", lastName |-> "Lee", email |-> "a@x", password |-> "abc"],
     [firstName |-> "Ann", lastName |-> "Lee", email |-> "a@x", password |-> "ab"]}

\* data of the sign-in form.
Credentials ==
    {[email |-> "a@x", password |-> "abc"], [email |-> "a@x", password |-> "xyz"],
     [email |-> "b@x", password |-> "abc"]}

\* data of a task form; labelIds is Null when the form names no label.
TaskForms ==
    {[name |-> "task", statusId |-> s, executorId |-> "", labelIds |-> Null] :
        s \in StatusIds \cup {""}}
    \cup {[name |-> "task", statusId |-> "1", executorId |-> "1", labelIds |-> "1"],
          [name |-> "", statusId |-> "1", executorId |-> "", labelIds |-> Null]}

\* The query of GET /tasks.
TaskQueries ==
    [statusId : {"", "1"}, executorId : {"", "1"}, labelId : {""},
     onlyMy : {"", "on"}, hasLabel : {""}]
    \cup {[statusId |-> "", executorId |-> "", labelId |-> "1", onlyMy |-> "",
           hasLabel |-> ""],
          [statusId |-> "", executorId |-> "", labelId |-> "", onlyMy |-> "",
           hasLabel |-> "on"]}

\* body._method of a POST; Null when the body has none.
MethodFields == {Null, "delete", "Patch", "get"}

\* body._method of the forms that create a status, a task or a user.
FormMethodFields == {Null, "Patch"}

(***************************************************************************)
(* The request as the handler sees it (app.js, onRequest hook).            *)
(***************************************************************************)
\* request.cookies and request.currentUser, added to what the request
\* carries, for a request sent with the cookies j.
RequestWith(j, req) ==
    LET cookies == ParsedCookies[j]
        userId == Cookie(cookies, "userId")
    IN  req @@ [cookies |-> cookies,
                currentUser |-> IF userId # Null /\ userId # ""
                                THEN userFindById(userId) ELSE NoUser]

\* The request of the browser: it sends the cookies it holds.
Request(req) == RequestWith(jar, req)

\* The one row of a set of one row.
Row(rows) == CHOOSE r \in rows : TRUE

(***************************************************************************)
(* Method override (app.js, preHandler hook).  Fastify picks the route     *)
(* from the method and url of the request line before it runs any hook,    *)
(* and Request.method is an accessor without a setter in Fastify 3 and     *)
(* later: there the assignment throws, in a module, which is strict code.  *)
(***************************************************************************)
toUpperCase(s) ==
    LET lower == "abcdefghijklmnopqrstuvwxyz"
        upper == "ABCDEFGHIJKLMNOPQRSTUVWXYZ"
        out == [i \in 1..Len(s) |->
                   IF IndexOf(lower, CharAt(s, i)) = 0 THEN CharAt(s, i)
                   ELSE CharAt(upper, IndexOf(lower, CharAt(s, i)))]
    IN  Join(out, 1, Len(s))

UpperCase == Tabulated([s \in FormTexts |-> toUpperCase(s)])

\* request.method after the hook.
MethodOverride(method, field) ==
    IF method = "POST" /\ field # Null /\ field # ""
       /\ UpperCase[field] \in {"PATCH", "DELETE", "PUT"}
    THEN UpperCase[field] ELSE method

\* How the hook can end: "next" (it returns, request.method as above), or
\* "threw" (the assignment to request.method throws).
PreHandler(method, field) ==
    IF MethodOverride(method, field) # method THEN {"next", "threw"} ELSE {"next"}

(***************************************************************************)
(* Replies.                                                                *)
(***************************************************************************)
Redirect(headers, location) ==
    [status |-> 302, location |-> location, headers |-> headers, flash |-> NoFlash,
     tasks |-> {}]

Send(status) ==
    [status |-> status, location |-> Null, headers |-> <<>>, flash |-> NoFlash,
     tasks |-> {}]

\* pug.renderFile(view, {flash: getFlash(request, reply), tasks, ...}): the
\* page, kept as the flash and the tasks it is rendered from.
Render(req, view, rows) ==
    LET got == getFlash(req.cookies, <<>>)
    IN  [status |-> 200, location |-> Null, headers |-> got.headers, flash |-> got.flash,
         tasks |-> rows]

AccessDenied(location) ==
    Redirect(setFlash(<<>>, "danger", "Access denied"), location)

\* setErrorHandler: the reply to a request whose hook or handler threw.
InternalServerError == Send(500)

(***************************************************************************)
(* The handlers.  Each yields the tables it leaves and its reply.          *)
(***************************************************************************)
\* A handler that writes nothing.
Keep(r) == [users |-> users, statuses |-> statuses, tasks |-> tasks, seq |-> seq,
            reply |-> r]

\* app.get of '/', '/users', '/statuses', '/users/new', '/session/new'.
PageViews == [url \in {"/", "/users", "/statuses", "/users/new", "/session/new"} |->
                 CASE url = "/" -> "index"
                   [] url = "/users" -> "users/index"
                   [] url = "/statuses" -> "statuses/index"
                   [] url = "/users/new" -> "users/new"
                   [] url = "/session/new" -> "session/new"]

getPage(req, url) == Keep(Render(req, PageViews[url], {}))

\* app.get of '/statuses/new' and '/tasks/new'.
FormViews == [url \in {"/statuses/new", "/tasks/new"} |->
                 IF url = "/statuses/new" THEN "statuses/new" ELSE "tasks/new"]

getForm(req, url) ==
    IF req.currentUser = NoUser THEN Keep(AccessDenied("/session/new"))
    ELSE Keep(Render(req, FormViews[url], {}))

postStatuses(req) ==
    LET name == Trimmed[req.name]
    IN  IF req.currentUser = NoUser THEN Keep(AccessDenied("/session/new"))
        ELSE IF name = ""
        THEN Keep(Redirect(
                           setFlash(<<>>, "danger", T("status.name") \o " is required"),
                           "/statuses/new"))
        ELSE LET made == statusCreate([name |-> name])
             IN  [Keep(Redirect(setFlash(<<>>, "success", T("status.created")),
                                "/statuses"))
                     EXCEPT !.statuses = made.statuses, !.seq = made.seq]

getStatusEdit(req) ==
    IF req.currentUser = NoUser THEN Keep(AccessDenied("/session/new"))
    ELSE IF statusFindById(req.id) = {} THEN Keep(Send(404))
    ELSE Keep(Render(req, "statuses/edit", {}))

\* patchStatus with no check of request.currentUser.
patchStatusByAnyone(req) ==
    LET name == Trimmed[req.name]
    IN  IF name = ""
        THEN Keep(Redirect(
                           setFlash(<<>>, "danger", T("status.name") \o " is required"),
                           "/statuses/" \o req.id \o "/edit"))
        ELSE [Keep(Redirect(setFlash(<<>>, "success", T("status.updated")),
                            "/statuses"))
                 EXCEPT !.statuses = statusUpdate(req.id, [name |-> name])]

patchStatus(req) ==
    LET name == Trimmed[req.name]
    IN  IF req.currentUser = NoUser THEN Keep(AccessDenied("/session/new"))
        ELSE IF name = ""
        THEN Keep(Redirect(
                           setFlash(<<>>, "danger", T("status.name") \o " is required"),
                           "/statuses/" \o req.id \o "/edit"))
        ELSE [Keep(Redirect(setFlash(<<>>, "success", T("status.updated")),
                            "/statuses"))
                 EXCEPT !.statuses = statusUpdate(req.id, [name |-> name])]

deleteStatus(req) ==
    LET removed == statusRemove(req.id)
    IN  IF req.currentUser = NoUser THEN Keep(AccessDenied("/session/new"))
        ELSE IF ~removed.ok
        THEN [Keep(Redirect(
                            setFlash(<<>>, "danger", "Cannot delete status with assigned tasks"),
                            "/statuses"))
                 EXCEPT !.statuses = removed.statuses]
        ELSE [Keep(Redirect(setFlash(<<>>, "success", T("status.deleted")),
                            "/statuses"))
                 EXCEPT !.statuses = removed.statuses]

\* filters of app.get('/tasks'): the keys the query supplies.
Truthy(v) == v \in {"1", "true", "on"}

TaskFilters(req, query) ==
    LET keys == {k \in {"statusId", "executorId", "labelId"} : query[k] # ""}
                \cup (IF Truthy(query.hasLabel) THEN {"hasLabel"} ELSE {})
                \cup (IF Truthy(query.onlyMy) /\ req.currentUser # NoUser
                      THEN {"createdBy"} ELSE {})
    IN  [k \in keys |->
            CASE k = "hasLabel" -> "true"
              [] k = "createdBy" -> Row(req.currentUser).id
              [] OTHER -> Numbers[query[k]]]

getTasks(req) ==
    Keep(Render(req, "tasks/index", taskFindAll(TaskFilters(req, req.query))))

\* labelIds of a task form: null, or the ids of the one value given.
LabelIds(li) ==
    IF li = Null \/ li = "" THEN [given |-> FALSE, ids |-> {}]
    ELSE [given |-> TRUE, ids |-> {Numbers[li]}]

postTasks(req) ==
    LET data == req.data
        name == Trimmed[data.name]
        executorId == IF data.executorId = "" THEN Null ELSE data.executorId
        made == taskCreate([name |-> name, statusId |-> data.statusId,
                            creatorId |-> Row(req.currentUser).id, executorId |-> executorId,
                            labelIds |-> LabelIds(data.labelIds)])
    IN  IF req.currentUser = NoUser THEN Keep(AccessDenied("/session/new"))
        ELSE IF name = "" \/ data.statusId = ""
        THEN Keep(Redirect(setFlash(<<>>, "danger", "Validation error"), "/tasks/new"))
        ELSE IF made.threw THEN Keep(InternalServerError)
        ELSE [Keep(Redirect(setFlash(<<>>, "success", T("task.created")), "/tasks"))
                 EXCEPT !.tasks = made.tasks, !.seq = made.seq]

getTask(req) ==
    IF taskFindById(req.id) = {} THEN Keep(Send(404))
    ELSE Keep(Render(req, "tasks/show", taskFindById(req.id)))

getTaskEdit(req) ==
    IF req.currentUser = NoUser THEN Keep(AccessDenied("/session/new"))
    ELSE IF taskFindById(req.id) = {} THEN Keep(Send(404))
    ELSE Keep(Render(req, "tasks/edit", taskFindById(req.id)))

patchTask(req) ==
    LET data == req.data
        executorId == IF data.executorId = "" THEN Null ELSE data.executorId
        updated == taskUpdate(req.id, [name |-> data.name, statusId |-> data.statusId,
                                       executorId |-> executorId,
                                       labelIds |-> LabelIds(data.labelIds)])
    IN  IF req.currentUser = NoUser THEN Keep(AccessDenied("/session/new"))
        ELSE IF updated.threw THEN Keep(InternalServerError)
        ELSE [Keep(Redirect(setFlash(<<>>, "success", T("task.updated")), "/tasks"))
                 EXCEPT !.tasks = updated.tasks]

\* deleteTask with no comparison of the requester to the task's creator.
deleteTaskBySignedIn(req) ==
    LET task == taskFindById(req.id)
    IN  IF task = {} THEN Keep(Send(404))
        ELSE IF req.currentUser = NoUser THEN Keep(AccessDenied("/tasks"))
        ELSE [Keep(Redirect(setFlash(<<>>, "success", T("task.deleted")), "/tasks"))
                 EXCEPT !.tasks = taskRemove(req.id)]

deleteTask(req) ==
    LET task == taskFindById(req.id)
    IN  IF task = {} THEN Keep(Send(404))
        ELSE IF req.currentUser = NoUser \/ Row(req.currentUser).id # Row(task).creatorId
        THEN Keep(AccessDenied("/tasks"))
        ELSE [Keep(Redirect(setFlash(<<>>, "success", T("task.deleted")), "/tasks"))
                 EXCEPT !.tasks = taskRemove(req.id)]

\* postUsers with no findByEmail before the insert.
postUsersUnchecked(req) ==
    LET data == req.data
        made == userCreate([firstName |-> data.firstName, lastName |-> data.lastName,
                            email |-> data.email, password |-> Hashes[data.password]])
        flashed == setFlash(<<>>, "success", "User created")
    IN  IF data.firstName = "" \/ data.lastName = "" \/ data.email = "" \/ data.password = ""
           \/ Len(data.password) < 3
        THEN Keep(Redirect(
                           setFlash(<<>>, "danger", "Validation error: check required fields"),
                           "/users/new"))
        ELSE IF made.threw THEN Keep(InternalServerError)
        ELSE [Keep(Redirect(
                            setCookie(flashed, "userId", made.row.id,
                                      [path |-> "/", expires |-> Null]),
                            "/users"))
                 EXCEPT !.users = made.users, !.seq = made.seq]

postUsers(req) ==
    LET data == req.data
        made == userCreate([firstName |-> data.firstName, lastName |-> data.lastName,
                            email |-> data.email, password |-> Hashes[data.password]])
        flashed == setFlash(<<>>, "success", "User created")
    IN  IF data.firstName = "" \/ data.lastName = "" \/ data.email = "" \/ data.password = ""
           \/ Len(data.password) < 3
        THEN Keep(Redirect(
                           setFlash(<<>>, "danger", "Validation error: check required fields"),
                           "/users/new"))
        ELSE IF userFindByEmail(data.email) # {}
        THEN Keep(Redirect(setFlash(<<>>, "danger", "Email already in use"),
                           "/users/new"))
        ELSE IF made.threw THEN Keep(InternalServerError)
        ELSE [Keep(Redirect(
                            setCookie(flashed, "userId", made.row.id,
                                      [path |-> "/", expires |-> Null]),
                            "/users"))
                 EXCEPT !.users = made.users, !.seq = made.seq]

getUserEdit(req) ==
    IF userFindById(req.id) = {} THEN Keep(Send(404))
    ELSE IF req.currentUser = NoUser \/ Row(req.currentUser).id # req.id
    THEN Keep(AccessDenied("/users"))
    ELSE Keep(Render(req, "users/edit", {}))

\* patchUser with no comparison of the requester's id to :id.
patchUserBySignedIn(req) ==
    LET data == req.data
        password == IF data.password # "" /\ Len(data.password) >= 3
                    THEN Hashes[data.password] ELSE Null
        updated == userUpdate(req.id, [firstName |-> data.firstName,
                                       lastName |-> data.lastName, email |-> data.email,
                                       password |-> password])
    IN  IF req.currentUser = NoUser THEN Keep(AccessDenied("/users"))
        ELSE IF updated.threw THEN Keep(InternalServerError)
        ELSE [Keep(Redirect(setFlash(<<>>, "success", "User updated"), "/users"))
                 EXCEPT !.users = updated.users]

patchUser(req) ==
    LET data == req.data
        password == IF data.password # "" /\ Len(data.password) >= 3
                    THEN Hashes[data.password] ELSE Null
        updated == userUpdate(req.id, [firstName |-> data.firstName,
                                       lastName |-> data.lastName, email |-> data.email,
                                       password |-> password])
    IN  IF req.currentUser = NoUser \/ Row(req.currentUser).id # req.id
        THEN Keep(AccessDenied("/users"))
        ELSE IF updated.threw THEN Keep(InternalServerError)
        ELSE [Keep(Redirect(setFlash(<<>>, "success", "User updated"), "/users"))
                 EXCEPT !.users = updated.users]

deleteUser(req) ==
    LET removed == userRemove(req.id)
    IN  IF req.currentUser = NoUser \/ Row(req.currentUser).id # req.id
        THEN Keep(AccessDenied("/users"))
        ELSE IF ~removed.ok
        THEN Keep(Redirect(
                           setFlash(<<>>, "danger", "Cannot delete user with assigned tasks"),
                           "/users"))
        ELSE [Keep(Redirect(
                            setFlash(clearCookie(<<>>, "userId"), "success", "User deleted"),
                            "/"))
                 EXCEPT !.users = removed.users, !.tasks = removed.tasks]

\* postSession with no bcrypt.compare of the password.
postSessionByEmail(req) ==
    LET user == userFindByEmail(req.data.email)
        flashed == LET kept == setCookie(<<>>, "userId", Row(user).id,
                                         [path |-> "/", expires |-> Null])
                   IN  setFlash(kept, "success", "Signed in")
    IN  IF user = {}
        THEN Keep(Redirect(setFlash(<<>>, "danger", "Invalid credentials"),
                           "/session/new"))
        ELSE Keep(Redirect(flashed, "/"))

postSession(req) ==
    LET user == userFindByEmail(req.data.email)
        flashed == LET kept == setCookie(<<>>, "userId", Row(user).id,
                                         [path |-> "/", expires |-> Null])
                   IN  setFlash(kept, "success", "Signed in")
    IN  IF user = {}
        THEN Keep(Redirect(setFlash(<<>>, "danger", "Invalid credentials"),
                           "/session/new"))
        ELSE IF ~bcryptCompare(req.data.password, Row(user).password)
        THEN Keep(Redirect(setFlash(<<>>, "danger", "Invalid credentials"),
                           "/session/new"))
        ELSE Keep(Redirect(flashed, "/"))

deleteSession(req) ==
    Keep(Redirect(setFlash(clearCookie(<<>>, "userId"), "success", "Signed out"), "/"))

\* Fastify's reply to a request no route matches.
notFound == Keep(Send(404))

\* The handler Fastify runs for a request to the url of one status, task or
\* user: the one app.js registers for the method of the request line, or
\* the 404 when it registers none.
HandleItem(method, url, req) ==
    CASE method = "PATCH" /\ url = "/statuses/:id" -> patchStatus(req)
      [] method = "DELETE" /\ url = "/statuses/:id" -> deleteStatus(req)
      [] method = "GET" /\ url = "/tasks/:id" -> getTask(req)
      [] method = "PATCH" /\ url = "/tasks/:id" -> patchTask(req)
      [] method = "DELETE" /\ url = "/tasks/:id" -> deleteTask(req)
      [] method = "PATCH" /\ url = "/users/:id" -> patchUser(req)
      [] method = "DELETE" /\ url = "/users/:id" -> deleteUser(req)
      [] OTHER -> notFound

(***************************************************************************)
(* One request: Fastify routes it, runs the hooks and the route's handler, *)
(* and the browser gets the reply and keeps its cookies.  A table that    *)
(* has given out the last id of the model takes no more POSTs.             *)
(***************************************************************************)
Calls == 1..MaxCalls

\* No handler runs for the call.
Idle == [pc |-> "idle"]

\* What a handler leaves: the tables as it wrote them, and its reply with the
\* browser.
Deliver(out) ==
    /\ users' = out.users
    /\ statuses' = out.statuses
    /\ tasks' = out.tasks
    /\ seq' = out.seq
    /\ reply' = out.reply
    /\ jar' = StoreCookies(jar, out.reply.headers)
    /\ UNCHANGED fkEnforced

\* A request served with no other in flight.
Apply(out) == Deliver(out) /\ UNCHANGED calls

\* What the request yields when the preHandler hook ends as hook says:
\* handled is what the handler of the route yields.
Response(hook, handled) ==
    IF hook = "threw" THEN Keep(InternalServerError) ELSE handled

Serve(method, req, handled) ==
    \E hook \in PreHandler(method, req.field) : Apply(Response(hook, handled))

\* A request with no body, or whose body has no _method.
Plain == [field |-> Null]

GetPage == \E url \in DOMAIN PageViews : Serve("GET", Plain, getPage(Request(Plain), url))

GetForm == \E url \in DOMAIN FormViews : Serve("GET", Plain, getForm(Request(Plain), url))

GetStatusEdit ==
    \E id \in StatusIds :
        LET req == [field |-> Null, id |-> id]
        IN  Serve("GET", req, getStatusEdit(Request(req)))

GetTasks ==
    \E q \in TaskQueries :
        LET req == [field |-> Null, query |-> q]
        IN  Serve("GET", req, getTasks(Request(req)))

GetTask ==
    \E id \in TaskIds :
        LET req == [field |-> Null, id |-> id]
        IN  Serve("GET", req, getTask(Request(req)))

GetTaskEdit ==
    \E id \in TaskIds :
        LET req == [field |-> Null, id |-> id]
        IN  Serve("GET", req, getTaskEdit(Request(req)))

GetUserEdit ==
    \E id \in UserIds :
        LET req == [field |-> Null, id |-> id]
        IN  Serve("GET", req, getUserEdit(Request(req)))

PostStatuses ==
    /\ seq.statuses < MaxStatuses
    /\ \E name \in StatusNames, f \in FormMethodFields :
           LET req == [field |-> f, name |-> name]
           IN  Serve("POST", req, postStatuses(Request(req)))

PatchStatus ==
    \E id \in StatusIds, name \in StatusNames :
        LET req == [field |-> Null, id |-> id, name |-> name]
        IN  Serve("PATCH", req, patchStatus(Request(req)))

DeleteStatus ==
    \E id \in StatusIds :
        LET req == [field |-> Null, id |-> id]
        IN  Serve("DELETE", req, deleteStatus(Request(req)))

PostTasks ==
    /\ seq.tasks < MaxTasks
    /\ \E data \in TaskForms, f \in FormMethodFields :
           LET req == [field |-> f, data |-> data]
           IN  Serve("POST", req, postTasks(Request(req)))

PatchTask ==
    \E id \in TaskIds, data \in TaskForms :
        LET req == [field |-> Null, id |-> id, data |-> data]
        IN  Serve("PATCH", req, patchTask(Request(req)))

DeleteTask ==
    \E id \in TaskIds :
        LET req == [field |-> Null, id |-> id]
        IN  Serve("DELETE", req, deleteTask(Request(req)))

PostUsers ==
    /\ seq.users < MaxUsers
    /\ \E data \in UserForms, f \in FormMethodFields :
           LET req == [field |-> f, data |-> data]
           IN  Serve("POST", req, postUsers(Request(req)))

PatchUser ==
    \E id \in UserIds, data \in UserEdits :
        LET req == [field |-> Null, id |-> id, data |-> data]
        IN  Serve("PATCH", req, patchUser(Request(req)))

DeleteUser ==
    \E id \in UserIds :
        LET req == [field |-> Null, id |-> id]
        IN  Serve("DELETE", req, deleteUser(Request(req)))

PostSession ==
    \E data \in Credentials, f \in MethodFields :
        LET req == [field |-> f, data |-> data]
        IN  Serve("POST", req, postSession(Request(req)))

DeleteSession == Serve("DELETE", Plain, deleteSession(Request(Plain)))

\* A form's POST to the url of one status, task or user.
ItemUrls == [url \in {"/statuses/:id", "/tasks/:id", "/users/:id"} |->
                CASE url = "/statuses/:id" -> StatusIds
                  [] url = "/tasks/:id" -> TaskIds
                  [] url = "/users/:id" -> UserIds]

PostItem ==
    \E url \in DOMAIN ItemUrls, f \in MethodFields :
        \E id \in ItemUrls[url] :
            LET req == [field |-> f, id |-> id]
            IN  Serve("POST", req, HandleItem("POST", url, Request(req)))

Init ==
    /\ fkEnforced \in BOOLEAN
    /\ users = {}
    /\ statuses = {}
    /\ tasks = {}
    /\ seq = [users |-> 0, statuses |-> 0, tasks |-> 0]
    /\ jar = [n \in {"userId", "flash"} |-> Null]
    /\ reply = Send(0)
    /\ calls = [c \in Calls |-> Idle]

Next ==
    \/ GetPage
    \/ GetForm
    \/ GetStatusEdit
    \/ GetTasks
    \/ GetTask
    \/ GetTaskEdit
    \/ GetUserEdit
    \/ PostStatuses
    \/ PatchStatus
    \/ DeleteStatus
    \/ PostTasks
    \/ PatchTask
    \/ DeleteTask
    \/ PostUsers
    \/ PatchUser
    \/ DeleteUser
    \/ PostSession
    \/ DeleteSession
    \/ PostItem

Spec == Init /\ [][Next]_vars

(***************************************************************************)
(* Requests in flight together.  Node runs a handler until it awaits a     *)
(* query, and runs other handlers while the query is pending: one step is  *)
(* one query of a handler with the code that follows it up to the next     *)
(* await.  Begin... is the request's arrival: the onRequest hook reads     *)
(* request.currentUser and the handler runs to its first query.  A table   *)
(* whose last id of the model is given out or asked for takes no more      *)
(* POSTs.                                                                  *)
(***************************************************************************)
\* The handler waits for the query pc names; of the request it holds what
\* the code after the query reads: the params and the body, and
\* request.currentUser.
Await(c, pc, req) ==
    /\ calls' = [calls EXCEPT ![c] = [pc |-> pc,
                                       req |-> [k \in DOMAIN req \ {"field", "cookies"} |->
                                                   req[k]]]]
    /\ UNCHANGED <<fkEnforced, users, statuses, tasks, seq, jar, reply>>

\* The handler has replied.
Finish(c, out) == Deliver(out) /\ calls' = [calls EXCEPT ![c] = Idle]

\* The calls that wait for the query.
Awaiting(pc) == {c \in Calls : calls[c].pc = pc}

\* The call a request that arrives gets: the first that is free.
Free(c) == calls[c] = Idle /\ \A d \in 1..(c - 1) : calls[d] # Idle

\* The forms sent while other requests are in flight: the sign-up and the
\* profile forms that pass the sign-up validation, and the task forms with
\* a name.
Registrations ==
    {data \in UserForms : /\ data.firstName # "" /\ data.lastName # "" /\ data.email # ""
                          /\ Len(data.password) >= 3}

ProfileEdits ==
    {data \in UserEdits : data.firstName # "" /\ Len(data.password) >= 3}

PlainNames == {name \in StatusNames : name # "" /\ Trimmed[name] = name}

NamedTasks == {data \in TaskForms : data.name # "" /\ data.labelIds = Null}

\* app.post('/users') up to userRepo.findByEmail.
BeginPostUsers ==
    \E c \in Calls, data \in Registrations :
        /\ Free(c)
        /\ seq.users + Cardinality(Awaiting("users.findByEmail") \cup Awaiting("users.create"))
              < MaxUsers
        /\ IF data.firstName = "" \/ data.lastName = "" \/ data.email = ""
              \/ data.password = "" \/ Len(data.password) < 3
           THEN Finish(c, Keep(Redirect(
                                        setFlash(<<>>, "danger",
                                                 "Validation error: check required fields"),
                                        "/users/new")))
           ELSE Await(c, "users.findByEmail", Request([field |-> Null, data |-> data]))

\* userRepo.findByEmail(email), and bcrypt.hash after it.
PostUsersFindByEmail ==
    \E c \in Awaiting("users.findByEmail") :
        IF userFindByEmail(calls[c].req.data.email) # {}
        THEN Finish(c, Keep(Redirect(setFlash(<<>>, "danger", "Email already in use"),
                                     "/users/new")))
        ELSE Await(c, "users.create", calls[c].req)

\* userRepo.create(...), and the reply after it.
PostUsersCreate ==
    \E c \in Awaiting("users.create") :
        LET data == calls[c].req.data
            made == userCreate([firstName |-> data.firstName, lastName |-> data.lastName,
                                email |-> data.email, password |-> Hashes[data.password]])
            flashed == setFlash(<<>>, "success", "User created")
        IN  IF made.threw THEN Finish(c, Keep(InternalServerError))
            ELSE Finish(c, [Keep(Redirect(
                                          setCookie(flashed, "userId", made.row.id,
                                                    [path |-> "/", expires |-> Null]),
                                          "/users"))
                               EXCEPT !.users = made.users, !.seq = made.seq])

\* app.patch('/users/:id') up to userRepo.update (no password is hashed
\* before it when the form gives none of 3 characters).
BeginPatchUser ==
    \E c \in Calls, id \in UserIds, data \in ProfileEdits :
        LET req == Request([field |-> Null, id |-> id, data |-> data])
        IN  /\ Free(c)
            /\ IF req.currentUser = NoUser \/ Row(req.currentUser).id # req.id
               THEN Finish(c, Keep(AccessDenied("/users")))
               ELSE Await(c, "users.update", req)

\* userRepo.update(id, attrs), and the reply after it.
PatchUserUpdate ==
    \E c \in Awaiting("users.update") :
        LET req == calls[c].req
            data == req.data
            password == IF data.password # "" /\ Len(data.password) >= 3
                        THEN Hashes[data.password] ELSE Null
            updated == userUpdate(req.id, [firstName |-> data.firstName,
                                           lastName |-> data.lastName,
                                           email |-> data.email, password |-> password])
        IN  IF updated.threw THEN Finish(c, Keep(InternalServerError))
            ELSE Finish(c, [Keep(Redirect(setFlash(<<>>, "success", "User updated"),
                                          "/users"))
                               EXCEPT !.users = updated.users])

\* app.post('/statuses') up to statusRepo.create.
BeginPostStatuses ==
    \E c \in Calls, name \in PlainNames :
        LET req == Request([field |-> Null, name |-> name])
        IN  /\ Free(c)
            /\ seq.statuses + Cardinality(Awaiting("statuses.create")) < MaxStatuses
            /\ IF req.currentUser = NoUser THEN Finish(c, Keep(AccessDenied("/session/new")))
               ELSE IF Trimmed[name] = ""
               THEN Finish(c, Keep(Redirect(
                                            setFlash(<<>>, "danger",
                                                     T("status.name") \o " is required"),
                                            "/statuses/new")))
               ELSE Await(c, "statuses.create", req)

\* statusRepo.create({ name }), and the reply after it.
PostStatusesCreate ==
    \E c \in Awaiting("statuses.create") :
        LET made == statusCreate([name |-> Trimmed[calls[c].req.name]])
        IN  Finish(c, [Keep(Redirect(setFlash(<<>>, "success", T("status.created")),
                                     "/statuses"))
                          EXCEPT !.statuses = made.statuses, !.seq = made.seq])

\* app.delete('/statuses/:id') up to the count of statusRepo.remove.
BeginDeleteStatus ==
    \E c \in Calls, id \in StatusIds :
        LET req == Request([field |-> Null, id |-> id])
        IN  /\ Free(c)
            /\ IF req.currentUser = NoUser THEN Finish(c, Keep(AccessDenied("/session/new")))
               ELSE Await(c, "statuses.count", req)

\* remove: knex('tasks').where({ statusId: id }).count(...), and the return
\* of false after it.
DeleteStatusCount ==
    \E c \in Awaiting("statuses.count") :
        LET id == calls[c].req.id
            count == Cardinality({t \in tasks : t.statusId = Affinities[id]})
        IN  IF count > 0
            THEN Finish(c, Keep(Redirect(
                                         setFlash(<<>>, "danger",
                                                  "Cannot delete status with assigned tasks"),
                                         "/statuses")))
            ELSE Await(c, "statuses.del", calls[c].req)

\* remove: knex('statuses').where({ id }).del(), and the reply after it.  On
\* a connection that enforces foreign keys the delete of a status that a
\* task references is rejected (ON DELETE RESTRICT): remove throws.
DeleteStatusDel ==
    \E c \in Awaiting("statuses.del") :
        LET id == calls[c].req.id
            deleted == {s \in statuses : s.id = Affinities[id]}
            restricted == /\ fkEnforced
                          /\ deleted # {}
                          /\ \E t \in tasks : t.statusId = Affinities[id]
        IN  IF restricted THEN Finish(c, Keep(InternalServerError))
            ELSE IF deleted = {}
            THEN Finish(c, Keep(Redirect(
                                         setFlash(<<>>, "danger",
                                                  "Cannot delete status with assigned tasks"),
                                         "/statuses")))
            ELSE Finish(c, [Keep(Redirect(setFlash(<<>>, "success", T("status.deleted")),
                                          "/statuses"))
                               EXCEPT !.statuses = statuses \ deleted])

\* app.post('/tasks') up to taskRepo.create.
BeginPostTasks ==
    \E c \in Calls, data \in NamedTasks :
        LET req == Request([field |-> Null, data |-> data])
        IN  /\ Free(c)
            /\ seq.tasks + Cardinality(Awaiting("tasks.create")) < MaxTasks
            /\ IF req.currentUser = NoUser THEN Finish(c, Keep(AccessDenied("/session/new")))
               ELSE IF Trimmed[data.name] = "" \/ data.statusId = ""
               THEN Finish(c, Keep(Redirect(setFlash(<<>>, "danger", "Validation error"),
                                            "/tasks/new")))
               ELSE Await(c, "tasks.create", req)

\* taskRepo.create(...), and the reply after it.
PostTasksCreate ==
    \E c \in Awaiting("tasks.create") :
        LET req == calls[c].req
            data == req.data
            executorId == IF data.executorId = "" THEN Null ELSE data.executorId
            made == taskCreate([name |-> Trimmed[data.name], statusId |-> data.statusId,
                                creatorId |-> Row(req.currentUser).id,
                                executorId |-> executorId,
                                labelIds |-> LabelIds(data.labelIds)])
        IN  IF made.threw THEN Finish(c, Keep(InternalServerError))
            ELSE Finish(c, [Keep(Redirect(setFlash(<<>>, "success", T("task.created")),
                                          "/tasks"))
                               EXCEPT !.tasks = made.tasks, !.seq = made.seq])

\* app.patch('/tasks/:id') up to taskRepo.update.
BeginPatchTask ==
    \E c \in Calls, id \in TaskIds, data \in NamedTasks :
        LET req == Request([field |-> Null, id |-> id, data |-> data])
        IN  /\ Free(c)
            /\ IF req.currentUser = NoUser THEN Finish(c, Keep(AccessDenied("/session/new")))
               ELSE Await(c, "tasks.update", req)

\* taskRepo.update(id, attrs), and the reply after it.
PatchTaskUpdate ==
    \E c \in Awaiting("tasks.update") :
        LET req == calls[c].req
            data == req.data
            executorId == IF data.executorId = "" THEN Null ELSE data.executorId
            updated == taskUpdate(req.id, [name |-> data.name, statusId |-> data.statusId,
                                           executorId |-> executorId,
                                           labelIds |-> LabelIds(data.labelIds)])
        IN  IF updated.threw THEN Finish(c, Keep(InternalServerError))
            ELSE Finish(c, [Keep(Redirect(setFlash(<<>>, "success", T("task.updated")),
                                          "/tasks"))
                               EXCEPT !.tasks = updated.tasks])

NextConcurrent ==
    \/ BeginPostUsers
    \/ PostUsersFindByEmail
    \/ PostUsersCreate
    \/ BeginPatchUser
    \/ PatchUserUpdate
    \/ BeginPostStatuses
    \/ PostStatusesCreate
    \/ BeginDeleteStatus
    \/ DeleteStatusCount
    \/ DeleteStatusDel
    \/ BeginPostTasks
    \/ PostTasksCreate
    \/ BeginPatchTask
    \/ PatchTaskUpdate

SpecConcurrent == Init /\ [][NextConcurrent]_vars

(***************************************************************************)
(* What a reply hands to the browser, as the next request reads it.        *)
(***************************************************************************)
NoCookies == [n \in {"userId", "flash"} |-> Null]

\* The cookies a browser that held none keeps of the reply.
CookiesOf(r) == ParsedCookies[StoreCookies(NoCookies, r.headers)]

\* The flash the reply sets (NoFlash when it sets none).
FlashOf(r) == getFlash(CookiesOf(r), <<>>).flash

\* The userId cookie the reply sets (Null when it sets none).
UserIdOf(r) == Cookie(CookiesOf(r), "userId")

\* The user the next request is made as.
CurrentUser == Request(Plain).currentUser

\* The flash the browser holds: what the next page render reads.
PendingFlash == getFlash(ParsedCookies[jar], <<>>).flash

\* The cookies the browser holds once it has the reply.
JarAfter(r) == StoreCookies(jar, r.headers)

(***************************************************************************)
(* Properties.                                                             *)
(***************************************************************************)
\* C1: a DELETE /statuses/:id by a signed-in requester, of a status that a
\* task references, is blocked: statusRepo.remove(id) returns false, the
\* statuses and the tasks are unchanged, and the reply is a redirect to
\* /statuses with a flash of type danger.
StatusDeleteBlocked ==
    [][\A id \in StatusIds :
          (/\ CurrentUser # NoUser
           /\ \E t \in tasks : t.statusId = id
           /\ Serve("DELETE", [field |-> Null, id |-> id],
                    deleteStatus(Request([field |-> Null, id |-> id]))))
          => /\ ~statusRemove(id).ok
             /\ statuses' = statuses
             /\ tasks' = tasks
             /\ reply'.status = 302
             /\ reply'.location = "/statuses"
             /\ FlashOf(reply').type = "danger"]_vars

\* C1: a signed-in requester has been told that the status, which is still
\* stored and which a task references, cannot be deleted.
StatusDeleteBlockedWitness ==
    /\ CurrentUser # NoUser
    /\ \E s \in statuses : \E t \in tasks : t.statusId = s.id
    /\ reply.location = "/statuses"
    /\ FlashOf(reply) = [type |-> "danger",
                         message |-> "Cannot delete status with assigned tasks"]

\* C2: on every DELETE /tasks/:id of a stored task, the task is removed when
\* the requester is signed in as its creator, and only then: for an
\* anonymous requester or any other user the tasks are unchanged and the
\* reply is the flash 'Access denied' with a redirect to /tasks.
TaskDeleteOnlyByCreator ==
    [][\A id \in TaskIds : \A t \in tasks :
          (/\ t.id = id
           /\ Serve("DELETE", [field |-> Null, id |-> id],
                    deleteTask(Request([field |-> Null, id |-> id]))))
          => IF CurrentUser # NoUser /\ Row(CurrentUser).id = t.creatorId
             THEN tasks' = tasks \ {t}
             ELSE /\ tasks' = tasks
                  /\ reply'.status = 302
                  /\ reply'.location = "/tasks"
                  /\ FlashOf(reply') = [type |-> "danger", message |-> "Access denied"]]_vars

\* C2: a user who is not the creator of the stored task has been denied its
\* deletion.
TaskDeleteOnlyByCreatorWitness ==
    /\ CurrentUser # NoUser
    /\ \E t \in tasks : t.creatorId # Row(CurrentUser).id
    /\ reply.location = "/tasks"
    /\ FlashOf(reply) = [type |-> "danger", message |-> "Access denied"]

\* C3: in every state, a POST /session sets the userId cookie only to the
\* id of the user who has the submitted email and whose stored hash the
\* submitted password verifies against, and it does set it for such a user,
\* so that the next request is made as that user; for an unknown email or a
\* wrong password the handler sets no userId cookie and replies with the
\* flash 'Invalid credentials' and a redirect to /session/new.
LoginChecksPassword ==
    \A data \in Credentials, f \in MethodFields : \A hook \in PreHandler("POST", f) :
        LET out == Response(hook, postSession(Request([field |-> f, data |-> data])))
            signedIn == UserIdOf(out.reply)
            verified == {u \in users : /\ u.email = data.email
                                       /\ bcryptCompare(data.password, u.password)}
        IN  /\ out.users = users
            /\ signedIn # Null => \E u \in verified : signedIn = u.id
            /\ (verified # {} /\ hook = "next")
               => signedIn # Null /\ userFindById(signedIn) = verified
            /\ (verified = {} /\ hook = "next")
               => /\ signedIn = Null
                  /\ out.reply.status = 302
                  /\ out.reply.location = "/session/new"
                  /\ FlashOf(out.reply) = [type |-> "danger",
                                           message |-> "Invalid credentials"]

\* C3: a user has signed in, and the requests that follow are made as that
\* user.
LoginChecksPasswordWitness ==
    /\ FlashOf(reply) = [type |-> "success", message |-> "Signed in"]
    /\ UserIdOf(reply) # Null
    /\ CurrentUser # NoUser
    /\ Row(CurrentUser).id = UserIdOf(reply)

\* C4: in every state, a POST /users with an email that a stored user has
\* adds no user row and sets no userId cookie, and the handler replies with
\* a flash of type danger and a redirect to /users/new.
DuplicateEmailRejected ==
    \A data \in UserForms, f \in FormMethodFields : \A hook \in PreHandler("POST", f) :
        (\E u \in users : u.email = data.email)
        => LET out == Response(hook, postUsers(Request([field |-> f, data |-> data])))
           IN  /\ out.users = users
               /\ UserIdOf(out.reply) = Null
               /\ hook = "next"
                  => /\ out.reply.status = 302
                     /\ out.reply.location = "/users/new"
                     /\ FlashOf(out.reply).type = "danger"

\* C4: a sign-up with the email of a stored user has been turned away.
DuplicateEmailRejectedWitness ==
    /\ users # {}
    /\ reply.location = "/users/new"
    /\ FlashOf(reply) = [type |-> "danger", message |-> "Email already in use"]

\* C5: in every state, a DELETE /users/:id by the user of that id who is the
\* creator of a task is blocked (the users and the tasks are unchanged, the
\* userId cookie is kept, the flash is of type danger); and when the delete
\* removes the user, every task that had the user as executor has executorId
\* null afterwards and no task has the user as creatorId.
UserDeleteBlockedForCreator ==
    \A id \in UserIds :
        (CurrentUser # NoUser /\ Row(CurrentUser).id = id)
        => LET out == deleteUser(Request([field |-> Null, id |-> id]))
           IN  /\ (\E t \in tasks : t.creatorId = id)
                  => /\ out.users = users
                     /\ out.tasks = tasks
                     /\ JarAfter(out.reply).userId = jar.userId
                     /\ FlashOf(out.reply).type = "danger"
               /\ out.users # users
                  => /\ \A t \in tasks : t.executorId = id
                            => \E a \in out.tasks : a.id = t.id /\ a.executorId = Null
                     /\ \A a \in out.tasks : a.creatorId # id

\* C6: every stored task has a statusId that is the id of a stored status
\* and a creatorId that is the id of a stored user.
TaskHasStatusAndCreator ==
    \A t \in tasks : /\ \E st \in statuses : st.id = t.statusId
                     /\ \E u \in users : u.id = t.creatorId

\* C7: in every state, for a requester signed in or not and every query of
\* GET /tasks, every task of the page satisfies all the filters the query
\* supplies: its status is statusId, its executor is executorId, it carries
\* labelId, and (onlyMy) its creator is the requesting user.
TaskFilterMatchesAll ==
    \A q \in TaskQueries :
        LET out == getTasks(Request([field |-> Null, query |-> q]))
        IN  \A t \in out.reply.tasks :
                /\ q.statusId # "" => t.statusId = Numbers[q.statusId]
                /\ q.executorId # "" => t.executorId = Numbers[q.executorId]
                /\ q.labelId # "" => Numbers[q.labelId] \in t.labelIds
                /\ Truthy(q.onlyMy)
                   => CurrentUser # NoUser /\ t.creatorId = Row(CurrentUser).id

\* C8: a flash is shown once.  A reply that sets a flash leaves it with the
\* browser; the next page render (a reply of status 200) shows the flash the
\* browser holds and clears it; a render with none held shows none; and any
\* other reply leaves what the browser holds as it is.
FlashShownOnce ==
    [][/\ FlashOf(reply') # NoFlash => PendingFlash' = FlashOf(reply')
       /\ reply'.status = 200 => reply'.flash = PendingFlash /\ PendingFlash' = NoFlash
       /\ (reply'.status # 200 /\ FlashOf(reply') = NoFlash)
          => PendingFlash' = PendingFlash]_vars

\* C8: a page has shown a flash, and the browser holds it no more.
FlashShownOnceWitness ==
    /\ reply.status = 200
    /\ reply.flash # NoFlash
    /\ PendingFlash = NoFlash

\* The form a request with invalid input came from.
StatusForm(id) == IF id = Null THEN "/statuses/new" ELSE "/statuses/" \o id \o "/edit"

TaskForm(id) == IF id = Null THEN "/tasks/new" ELSE "/tasks/" \o id \o "/edit"

UserForm(id) == IF id = Null THEN "/users/new" ELSE "/users/" \o id \o "/edit"

\* The reply persists nothing and sends the requester back to the form with
\* a flash of type danger.
Rejected(out, form) ==
    /\ out.users = users
    /\ out.statuses = statuses
    /\ out.tasks = tasks
    /\ out.reply.status = 302
    /\ out.reply.location = form
    /\ FlashOf(out.reply).type = "danger"

InvalidUser(data) ==
    \/ data.firstName = ""
    \/ data.lastName = ""
    \/ data.email = ""
    \/ data.password = ""
    \/ Len(data.password) < 3

\* C9: in every state, a create or update request on statuses, tasks or
\* users, by a requester allowed to make it, whose input is invalid (a
\* blank status or task name, a task without statusId, a user with a missing
\* field or a password shorter than 3 characters) leaves the stored rows
\* unchanged and replies with a flash of type danger and a redirect to the
\* form it came from.
InvalidInputRejected ==
    /\ \A name \in StatusNames :
           (Trimmed[name] = "" /\ CurrentUser # NoUser)
           => /\ Rejected(postStatuses(Request([field |-> Null, name |-> name])),
                          StatusForm(Null))
              /\ \A id \in StatusIds :
                     Rejected(patchStatus(Request([field |-> Null, id |-> id,
                                                   name |-> name])),
                              StatusForm(id))
    /\ \A data \in TaskForms :
           ((Trimmed[data.name] = "" \/ data.statusId = "") /\ CurrentUser # NoUser)
           => /\ Rejected(postTasks(Request([field |-> Null, data |-> data])),
                          TaskForm(Null))
              /\ \A id \in TaskIds :
                     taskFindById(id) # {}
                     => Rejected(patchTask(Request([field |-> Null, id |-> id,
                                                    data |-> data])),
                                 TaskForm(id))
    /\ \A data \in UserForms \cup UserEdits :
           InvalidUser(data)
           => /\ Rejected(postUsers(Request([field |-> Null, data |-> data])),
                          UserForm(Null))
              /\ \A id \in UserIds :
                     (CurrentUser # NoUser /\ Row(CurrentUser).id = id)
                     => Rejected(patchUser(Request([field |-> Null, id |-> id,
                                                    data |-> data])),
                                 UserForm(id))

\* The bodies a form posts to the url of one status, task or user.
ItemForms ==
    [url \in DOMAIN ItemUrls |->
        CASE url = "/statuses/:id" -> [name : StatusNames]
          [] url = "/tasks/:id" -> [data : TaskForms]
          [] url = "/users/:id" -> [data : UserEdits]]

\* C10: in every state, a POST to the url of a status, a task or a user
\* whose _method is PATCH or DELETE in any letter case yields what the
\* native PATCH or DELETE request yields (the same reply and the same stored
\* rows); and a POST without _method, or with any other _method, yields
\* what the POST without _method yields.
MethodOverrideDispatches ==
    /\ \A url \in DOMAIN ItemUrls, f \in MethodFields :
           \A id \in ItemUrls[url], body \in ItemForms[url] :
               \A hook \in PreHandler("POST", f) :
                   LET req == body @@ [id |-> id]
                       method == MethodOverride("POST", f)
                   IN  method \in {"PATCH", "DELETE"}
                       => Response(hook, HandleItem("POST", url,
                                                    Request(req @@ [field |-> f])))
                          = HandleItem(method, url, Request(req @@ [field |-> Null]))
    /\ \A data \in Credentials, f \in MethodFields :
           MethodOverride("POST", f) = "POST"
           => /\ PreHandler("POST", f) = {"next"}
              /\ postSession(Request([field |-> f, data |-> data]))
                 = postSession(Request([field |-> Null, data |-> data]))

\* C11: in every state and for every id, of a stored status or of none,
\* statusRepo.remove(id) returns false exactly when some task references the
\* status, and otherwise returns true and leaves the statuses without the
\* one of that id and no other change; a blocked remove deletes nothing.
StatusRemoveReportsBlocked ==
    \A id \in StatusIds :
        LET removed == statusRemove(id)
            referenced == \E t \in tasks : t.statusId = Affinities[id]
        IN  /\ removed.ok = ~referenced
            /\ referenced => removed.statuses = statuses
            /\ ~referenced
               => /\ removed.statuses = {s \in statuses : s.id # Affinities[id]}
                  /\ removed.statuses # statuses

\* C12: in every state that registrations and profile updates reach, in
\* any order and with their queries interleaved, no two stored users have
\* the same email.
EmailsUnique ==
    \A u \in users : \A v \in users : u.email = v.email => u.id = v.id

\* C12: two registrations with one email had both passed findByEmail; the
\* first has stored its user and the insert of the second was refused.  (On
\* a connection without foreign keys and with one user stored, no other
\* query of these requests throws.)
EmailsUniqueWitness ==
    /\ ~fkEnforced
    /\ Cardinality(users) = 1
    /\ seq.users = 1
    /\ reply = InternalServerError
    /\ \A c \in Calls : calls[c] = Idle

\* The user rows that differ between before and after: changed, removed or
\* added.
ChangedUsers(before, after) == (before \ after) \cup (after \ before)

\* The reply is the flash 'Access denied' with a redirect to /users.
DeniedToUsers(r) ==
    /\ r.status = 302
    /\ r.location = "/users"
    /\ FlashOf(r) = [type |-> "danger", message |-> "Access denied"]

\* C13: in every state, a PATCH /users/:id or DELETE /users/:id changes or
\* removes no user row but the one of id :id, and that one only when the
\* current user's id is :id; for an anonymous requester and for any other
\* user the users are unchanged and the reply is the flash 'Access denied'
\* with a redirect to /users.
UserChangedOnlyBySelf ==
    \A id \in UserIds :
        LET self == CurrentUser # NoUser /\ Row(CurrentUser).id = id
            Only(out) ==
                /\ \A u \in ChangedUsers(users, out.users) : self /\ u.id = id
                /\ ~self => out.users = users /\ DeniedToUsers(out.reply)
        IN  /\ \A data \in UserEdits : \A hook \in PreHandler("PATCH", Null) :
                   Only(Response(hook, patchUser(Request([field |-> Null, id |-> id,
                                                          data |-> data]))))
            /\ \A hook \in PreHandler("DELETE", Null) :
                   Only(Response(hook, deleteUser(Request([field |-> Null, id |-> id]))))

\* C13: a signed-in user has been denied the change or the deletion of
\* another stored user.
UserChangedOnlyBySelfWitness ==
    /\ CurrentUser # NoUser
    /\ \E u \in users : u.id # Row(CurrentUser).id
    /\ DeniedToUsers(reply)

\* The cookies a request can come with: those of the browser, with any
\* userId cookie or none in place of the one it holds.
AnyUserId == {[jar EXCEPT !.userId = v] : v \in {Null} \cup {Encoded[id] : id \in UserIds}}

\* The handler wrote nothing and replied with the flash 'Access denied' and
\* a redirect to /session/new.
TurnedAway(out) ==
    /\ out.users = users
    /\ out.statuses = statuses
    /\ out.tasks = tasks
    /\ out.seq = seq
    /\ out.reply.status = 302
    /\ out.reply.location = "/session/new"
    /\ FlashOf(out.reply) = [type |-> "danger", message |-> "Access denied"]

\* C14: in every state, a request that comes with no userId cookie, or with
\* one that names no stored user, and so has no current user, is turned
\* away by POST /statuses, PATCH /statuses/:id, DELETE /statuses/:id,
\* POST /tasks and PATCH /tasks/:id: no row changes, and the reply is the
\* flash 'Access denied' with a redirect to /session/new.
AnonymousChangesNothing ==
    \A j \in AnyUserId :
        RequestWith(j, Plain).currentUser = NoUser
        => /\ \A name \in StatusNames :
                  /\ TurnedAway(postStatuses(RequestWith(j, [field |-> Null, name |-> name])))
                  /\ \A id \in StatusIds :
                         TurnedAway(patchStatus(RequestWith(j, [field |-> Null, id |-> id,
                                                                name |-> name])))
           /\ \A id \in StatusIds :
                  TurnedAway(deleteStatus(RequestWith(j, [field |-> Null, id |-> id])))
           /\ \A data \in TaskForms :
                  /\ TurnedAway(postTasks(RequestWith(j, [field |-> Null, data |-> data])))
                  /\ \A id \in TaskIds :
                         TurnedAway(patchTask(RequestWith(j, [field |-> Null, id |-> id,
                                                              data |-> data])))

\* C14: a user has been deleted, so that a userId cookie of that id names
\* no user, a status is stored, and a requester with no current user has
\* been turned away.
AnonymousChangesNothingWitness ==
    /\ \E n \in 1..seq.users : userFindById(Id(n)) = {}
    /\ statuses # {}
    /\ CurrentUser = NoUser
    /\ reply.status = 302
    /\ reply.location = "/session/new"
    /\ FlashOf(reply) = [type |-> "danger", message |-> "Access denied"]

\* C15: on every step in which statusRepo.remove, having counted no task
\* that references the status, runs its delete of a stored status while
\* other requests are in flight, remove does not throw (the reply is not
\* the 500 of the error handler) and no task is left whose statusId is the
\* id of the status it deleted.
StatusDeleteRaceSafe ==
    [][\A c \in Calls :
          (/\ calls[c].pc = "statuses.del"
           /\ calls'[c] = Idle
           /\ statusFindById(calls[c].req.id) # {})
          => /\ reply' # InternalServerError
             /\ \A t \in tasks' :
                    t.statusId = Affinities[calls[c].req.id]
                    => \E st \in statuses' : st.id = t.statusId]_vars

=============================================================================
